---------------------------- MODULE Spec2Model ----------------------------
(***************************************************************************)
(* International 3-wire impulse clock controller                           *)
(* (src/international_clock_daemon_web.py).                                *)
(*                                                                         *)
(* Two kinds of thread share STATE under one non-reentrant LOCK: the       *)
(* daemon loop (thread 0) and a web request handler (thread 1).            *)
(* Every `with LOCK:` block that contains no call is one atomic step.      *)
(* Hardware switching, sleeps and file writes are steps of their own, so   *)
(* that the other threads interleave with them.                            *)
(*                                                                         *)
(* Time.  clock is the wall clock in whole minutes since midnight of day 0 *)
(* (datetime.now() truncated to the minute); it moves by TimePasses at any *)
(* moment.  elapsed is time.monotonic() - start of the running fast-set    *)
(* session in seconds; the 2 s the session spends per pulse never add up   *)
(* to the cap (400 * 2 s < 2400 s), so only a long suspension of the       *)
(* process is counted (LongPause).  A minute tick gets from second 0 to    *)
(* the correction burst within its minute (TickBeforeBurst).               *)
(*                                                                         *)
(* fast_set_status holds the status text without the numbers the code      *)
(* formats into it, "..." standing for its ellipsis character.  A pulse of *)
(* the correction burst (pulse_a: on, sleep, off) is one step.  index()    *)
(* (read only), logging and the signal handler are left out.               *)
(***************************************************************************)
EXTENDS Integers, FiniteSets, Sequences, TLC

\* ---------------------------------------------------------------- constants
CORRECTION_PULSES == 17
FAST_SET_MAX_PULSES == 400
FAST_SET_MAX_SECONDS == 40 * 60
DialCycle == 720
HalfCycle == 360
BurstMinute == 59

LastBMinuteIsBurstMinute == BurstMinute

LastBMinute == 49

\* ------------------------------------------------------------------- bounds
MaxMinutes == 2
MaxRequests == 3
MaxLongRequests == 2
MaxStopRequests == 2
MaxDialRequests == 1

StartClock == (11 * 60) + 58
MaxClock == StartClock + MaxMinutes

Daemon == 0
Web == {1}
Threads == {Daemon} \cup Web
NoThread == -1
None == -1

\* The dial readings the operator submits (hh, mm), and the records a state
\* file left by an earlier run may hold.
DialReadings == { <<23, 57>>, <<0, 0>> }
Record(off, has) == [offset_minutes |-> off, has_offset |-> has, absent |-> FALSE]
NoFile == [offset_minutes |-> 0, has_offset |-> FALSE, absent |-> TRUE]
StoredRecords == { NoFile, Record(-2, TRUE), Record(1, TRUE) }
LongReadings == { <<5, 58>> }
DialRecords == { NoFile, Record(5, FALSE), Record(-2, TRUE) }
DialClocks == { 0, 1, 359, 360, 361, 719, 720, 1081, 1439 }
LongRecords == { Record(360, TRUE), Record(361, TRUE), Record(718, TRUE),
                 Record(719, TRUE), Record(359, TRUE) }

VARIABLES
    \* STATE
    offset_minutes, has_offset, last_minute_tick, last_correction_hour,
    stall_remaining_minutes, fast_set_requested, fast_set_running,
    fast_set_cancel_requested, fast_set_status,
    \* LOCK, relays, clocks, state file
    LOCK, A_RELAY, B_RELAY, clock, elapsed, store,
    \* per-thread control: position, return position, persist snapshot,
    \* the burst's `now` and pulse index
    pc, ret, data, burst_now, burst_i,
    \* locals of the daemon thread
    now, stall, adv, pulses_sent, upd, exc,
    \* requests accepted by the web server so far, and how many it accepts
    requests, budget,
    \* history (never read by the program)
    h_bursts, h_stop_pulses, h_dial, h_n0, h_quiet, h_updates, h_req_since_claim,
    h_tick, h_written, h_stop, h_reading

shared == << offset_minutes, has_offset, last_minute_tick, last_correction_hour,
             stall_remaining_minutes, fast_set_requested, fast_set_running,
             fast_set_cancel_requested, fast_set_status >>
session == << fast_set_requested, fast_set_running, fast_set_cancel_requested,
              fast_set_status >>
offsetv == << offset_minutes, has_offset >>
guards == << last_minute_tick, last_correction_hour >>
relays == << A_RELAY, B_RELAY >>
timev == << clock, elapsed >>
ctl == << pc, ret >>
burstv == << burst_now, burst_i >>
dlocals == << now, stall, adv, pulses_sent, upd, exc >>
\* h_tick: the minute pulses the running minute tick has switched on and off;
\* h_written: the state file has been written; h_stop: which of the stop and
\* fast-set requests was handled last; h_reading: the dial reading of the
\* last set-dial request, until the offset or the wall clock changes again.
hist2 == << h_tick, h_written, h_stop, h_reading >>
hist == << h_bursts, h_stop_pulses, h_dial, h_n0, h_quiet, h_updates,
           h_req_since_claim, hist2 >>
vars == << shared, LOCK, relays, timev, store, ctl, data, burstv, dlocals,
           requests, budget, hist >>

\* ----------------------------------------------------------- pure functions
to_12h_minutes(c) == (((c \div 60) % 24) * 60 + (c % 60)) % DialCycle

minute_of(c) == c % 60

hour_key_of(c) == c \div 60

current_estimated_dial_minutes(c) ==
    IF ~has_offset THEN to_12h_minutes(c)
    ELSE (to_12h_minutes(c) + offset_minutes) % DialCycle

plan_of_half_stalls(delta_forward) ==
    IF delta_forward = 0 THEN << 0, 0 >>
    ELSE IF delta_forward >= HalfCycle THEN << DialCycle - delta_forward, 0 >>
    ELSE << 0, delta_forward >>

plan_of(delta_forward) ==
    IF delta_forward = 0 THEN << 0, 0 >>
    ELSE IF delta_forward > HalfCycle THEN << DialCycle - delta_forward, 0 >>
    ELSE << 0, delta_forward >>

compute_fast_or_stall_plan(c) ==
    plan_of((to_12h_minutes(c) - current_estimated_dial_minutes(c)) % DialCycle)

offset_after_unnormalised(off, stalled, advanced) == off - stalled + advanced

offset_after_ignores_advance(off, stalled, advanced) == (off - stalled) % DialCycle

offset_after(off, stalled, advanced) == (off - stalled + advanced) % DialCycle

dial_offset_reversed(hh, mm, c) ==
    (to_12h_minutes(c) - (((hh * 60) + mm) % DialCycle)) % DialCycle

dial_offset(hh, mm, c) == ((((hh * 60) + mm) % DialCycle) - to_12h_minutes(c)) % DialCycle

\* ------------------------------------------------------------------ helpers
Free == LOCK = NoThread

Goto(t, p) == pc' = [pc EXCEPT ![t] = p]

Call(t, p, r) == pc' = [pc EXCEPT ![t] = p] /\ ret' = [ret EXCEPT ![t] = r]

Return(t) == pc' = [pc EXCEPT ![t] = ret[t]] /\ ret' = [ret EXCEPT ![t] = "none"]

InSession == fast_set_running

\* A web request or the passing of time during a session ends its quiet run.
Disturbed == h_quiet' = FALSE /\ h_n0' = 0 /\ h_updates' = 0

NoPulses == [a_on |-> 0, a_off |-> 0, b_on |-> 0, b_off |-> 0]

\* ------------------------------------------------------------- initial state
InitAt(records, n, clocks) ==
    /\ offset_minutes = 0
    /\ has_offset = FALSE
    /\ last_minute_tick = None
    /\ last_correction_hour = None
    /\ stall_remaining_minutes = 0
    /\ fast_set_requested = FALSE
    /\ fast_set_running = FALSE
    /\ fast_set_cancel_requested = FALSE
    /\ fast_set_status = "Idle"
    /\ LOCK = NoThread
    /\ A_RELAY = FALSE
    /\ B_RELAY = FALSE
    /\ clock \in clocks
    /\ elapsed = 0
    /\ store \in records
    /\ pc = [t \in Threads |-> IF t = Daemon THEN "restore" ELSE "idle"]
    /\ ret = [t \in Threads |-> "none"]
    /\ data = [t \in Threads |-> NoFile]
    /\ burst_now = [t \in Threads |-> None]
    /\ burst_i = [t \in Threads |-> 0]
    /\ now = None
    /\ stall = 0
    /\ adv = 0
    /\ pulses_sent = 0
    /\ upd = << 0, 0 >>
    /\ exc = "none"
    /\ requests = 0
    /\ budget = n
    /\ h_bursts = [h \in hour_key_of(StartClock) .. hour_key_of(MaxClock) |-> 0]
    /\ h_stop_pulses = None
    /\ h_dial = None
    /\ h_n0 = 0
    /\ h_quiet = FALSE
    /\ h_updates = 0
    /\ h_req_since_claim = FALSE
    /\ h_tick = NoPulses
    /\ h_written = FALSE
    /\ h_stop = "none"
    /\ h_reading = << >>

InitWith(records, n) == InitAt(records, n, {StartClock})

Init == InitWith(StoredRecords, MaxRequests)

\* ------------------------------------------------- daemon: start of the loop
\* restore_state(): a missing file leaves the defaults.
RestoreState ==
    /\ pc[Daemon] = "restore"
    /\ IF store.absent
       THEN UNCHANGED << offsetv, LOCK >>
       ELSE /\ Free
            /\ offset_minutes' = store.offset_minutes % DialCycle
            /\ has_offset' = store.has_offset
            /\ UNCHANGED LOCK
    /\ Goto(Daemon, "init_off")
    /\ h_reading' = IF store.absent THEN h_reading ELSE << >>
    /\ UNCHANGED << guards, stall_remaining_minutes, session, relays, timev,
                    store, ret, data, burstv, dlocals, requests, budget,
                    h_bursts, h_stop_pulses, h_dial, h_n0, h_quiet, h_updates,
                    h_req_since_claim, h_tick, h_written, h_stop >>

\* daemon_loop(): all_relays_off() before the loop.
InitRelaysOff ==
    /\ pc[Daemon] = "init_off"
    /\ A_RELAY' = FALSE
    /\ B_RELAY' = FALSE
    /\ Goto(Daemon, "fs_claim")
    /\ UNCHANGED << shared, LOCK, timev, store, ret, data, burstv, dlocals,
                    requests, budget, hist >>

\* --------------------------------------------------- maybe_handle_fast_set()
CancelKept == fast_set_cancel_requested

\* Lines 302 and 559: the claim of a request and the fast-set handler both
\* clear fast_set_cancel_requested.
CancelCleared == FALSE

SessionClaimNoRunning == [requested |-> FALSE, running |-> FALSE,
                          cancel |-> FALSE, status |-> "Starting..."]

SessionClaim == [requested |-> FALSE, running |-> TRUE,
                 cancel |-> CancelCleared, status |-> "Starting..."]

\* Lines 297-303: return unless a request is pending, else claim it.
FsClaim ==
    /\ pc[Daemon] = "fs_claim"
    /\ Free
    /\ IF ~fast_set_requested \/ fast_set_running
       THEN /\ Goto(Daemon, "sleep")
            /\ UNCHANGED << session, h_bursts, h_stop_pulses, h_dial, h_n0,
                            h_quiet, h_updates, h_req_since_claim >>
       ELSE /\ fast_set_requested' = SessionClaim.requested
            /\ fast_set_running' = SessionClaim.running
            /\ fast_set_cancel_requested' = SessionClaim.cancel
            /\ fast_set_status' = SessionClaim.status
            /\ Goto(Daemon, "fs_plan0")
            /\ h_dial' = current_estimated_dial_minutes(clock)
            /\ h_quiet' = TRUE
            /\ h_n0' = 0
            /\ h_updates' = 0
            /\ h_req_since_claim' = FALSE
            /\ UNCHANGED << h_bursts, h_stop_pulses >>
    /\ UNCHANGED << offsetv, guards, stall_remaining_minutes, LOCK, relays,
                    timev, store, ret, data, burstv, dlocals, requests, budget >>
    /\ UNCHANGED hist2

\* Lines 306 and 341: stall, adv = compute_fast_or_stall_plan().
FsPlan ==
    /\ pc[Daemon] \in {"fs_plan0", "fs_plan"}
    /\ Free
    /\ stall' = compute_fast_or_stall_plan(clock)[1]
    /\ adv' = compute_fast_or_stall_plan(clock)[2]
    /\ Goto(Daemon, IF pc[Daemon] = "fs_plan0" THEN "fs_first" ELSE "fs_decide")
    /\ h_n0' = IF pc[Daemon] = "fs_plan0" /\ h_quiet
               THEN compute_fast_or_stall_plan(clock)[2] ELSE h_n0
    /\ UNCHANGED << shared, LOCK, relays, timev, store, ret, data, burstv, now,
                    pulses_sent, upd, exc, requests, budget, h_bursts, h_stop_pulses, h_dial,
                    h_quiet, h_updates, h_req_since_claim >>
    /\ UNCHANGED hist2

StallHandoffNone(st) == stall_remaining_minutes

\* Lines 310 and 346: the stall minutes handed to the minute ticks.
StallHandoff(st) == st

\* Lines 308-326: the branches on the first plan.
FsFirst ==
    /\ pc[Daemon] = "fs_first"
    /\ Free
    /\ IF stall > 0
       THEN /\ stall_remaining_minutes' = StallHandoff(stall)
            /\ fast_set_status' = "Dial is fast: will STALL until aligned."
            /\ Goto(Daemon, "fs_finally")
            /\ UNCHANGED << pulses_sent, elapsed >>
       ELSE IF adv = 0
       THEN /\ fast_set_status' = "Already aligned (no action)."
            /\ Goto(Daemon, "fs_finally")
            /\ UNCHANGED << stall_remaining_minutes, pulses_sent, elapsed >>
       ELSE /\ fast_set_status' = "FAST SET running (dynamic)..."
            /\ pulses_sent' = 0
            /\ elapsed' = 0
            /\ Goto(Daemon, "fs_top")
            /\ UNCHANGED stall_remaining_minutes
    /\ UNCHANGED << offsetv, guards, fast_set_requested, fast_set_running,
                    fast_set_cancel_requested, LOCK, relays, clock, store, ret,
                    data, burstv, now, stall, adv, upd, exc, requests, budget, hist >>

\* Lines 329-339: the timeout check, then the cancel check under the lock;
\* a cancelled session switches both relays off inside the critical section.
FsTop ==
    /\ pc[Daemon] = "fs_top"
    /\ IF elapsed > FAST_SET_MAX_SECONDS
       THEN /\ exc' = "FAST SET timeout reached"
            /\ Goto(Daemon, "fs_except")
            /\ UNCHANGED << fast_set_status, relays >>
       ELSE /\ Free
            /\ exc' = exc
            /\ IF fast_set_cancel_requested
               THEN /\ fast_set_status' = "FAST SET cancelled by user."
                    /\ A_RELAY' = FALSE
                    /\ B_RELAY' = FALSE
                    /\ Goto(Daemon, "fs_finally")
               ELSE /\ Goto(Daemon, "fs_plan")
                    /\ UNCHANGED << fast_set_status, relays >>
    /\ UNCHANGED << offsetv, guards, stall_remaining_minutes, fast_set_requested,
                    fast_set_running, fast_set_cancel_requested, LOCK, timev,
                    store, ret, data, burstv, now, stall, adv, pulses_sent, upd,
                    requests, budget, hist >>

PulseCapReachedLate(p) == p > FAST_SET_MAX_PULSES

PulseCapReached(p) == p >= FAST_SET_MAX_PULSES

\* Lines 344-363: the branches on the loop's plan; the last one starts the
\* A+B pulse (pulse_ab switches both relays on).
FsDecide ==
    /\ pc[Daemon] = "fs_decide"
    /\ IF stall > 0
       THEN /\ Free
            /\ stall_remaining_minutes' = StallHandoff(stall)
            /\ fast_set_status' = "Dial is fast: will STALL until aligned."
            /\ Goto(Daemon, "fs_finally")
            /\ UNCHANGED << relays, exc, h_stop_pulses, h_dial >>
       ELSE IF adv = 0
       THEN /\ Free
            /\ fast_set_status' = "FAST SET complete."
            /\ Goto(Daemon, "fs_finally")
            /\ UNCHANGED << stall_remaining_minutes, relays, exc, h_stop_pulses,
                            h_dial >>
       ELSE IF PulseCapReached(pulses_sent)
       THEN /\ exc' = "FAST SET pulse cap reached"
            /\ Goto(Daemon, "fs_except")
            /\ UNCHANGED << stall_remaining_minutes, fast_set_status, relays,
                            h_stop_pulses, h_dial >>
       ELSE /\ A_RELAY' = TRUE
            /\ B_RELAY' = TRUE
            /\ Goto(Daemon, "fs_pulse_off")
            /\ h_stop_pulses' = IF h_stop_pulses = None THEN None
                                ELSE h_stop_pulses + 1
            /\ h_dial' = IF h_dial = None THEN None ELSE (h_dial + 1) % DialCycle
            /\ UNCHANGED << stall_remaining_minutes, fast_set_status, exc >>
    /\ UNCHANGED << offsetv, guards, fast_set_requested, fast_set_running,
                    fast_set_cancel_requested, LOCK, timev, store, ret, data,
                    burstv, now, stall, adv, pulses_sent, upd, requests, budget,
                    h_bursts, h_n0, h_quiet,
                    h_updates, h_req_since_claim >>
    /\ UNCHANGED hist2

\* pulse_ab(), lines 113-115, then the call of line 364.
FsPulseOff ==
    /\ pc[Daemon] = "fs_pulse_off"
    /\ A_RELAY' = FALSE
    /\ B_RELAY' = FALSE
    /\ upd' = << 0, 1 >>
    /\ Call(Daemon, "upd_lock", "fs_after_update")
    /\ UNCHANGED << shared, LOCK, timev, store, data, burstv, now, stall, adv,
                    pulses_sent, exc, requests, budget, hist >>

\* Lines 365-375: count the pulse, sleep, refresh the status every 10 pulses.
FsAfterUpdate ==
    /\ pc[Daemon] = "fs_after_update"
    /\ pulses_sent' = pulses_sent + 1
    /\ IF (pulses_sent + 1) % 10 = 0
       THEN Free /\ fast_set_status' = "Advancing..."
       ELSE UNCHANGED fast_set_status
    /\ Goto(Daemon, "fs_top")
    /\ UNCHANGED << offsetv, guards, stall_remaining_minutes, fast_set_requested,
                    fast_set_running, fast_set_cancel_requested, LOCK, relays,
                    timev, store, ret, data, burstv, now, stall, adv, upd, exc,
                    requests, budget, hist >>

ErrorStatus(e) ==
    IF e = "FAST SET timeout reached" THEN "FAST SET error: FAST SET timeout reached"
    ELSE "FAST SET error: FAST SET pulse cap reached"

\* Lines 377-380: the timeout and the pulse cap are raised as exceptions.
FsExcept ==
    /\ pc[Daemon] = "fs_except"
    /\ Free
    /\ fast_set_status' = ErrorStatus(exc)
    /\ Goto(Daemon, "fs_finally")
    /\ UNCHANGED << offsetv, guards, stall_remaining_minutes, fast_set_requested,
                    fast_set_running, fast_set_cancel_requested, LOCK, relays,
                    timev, store, ret, data, burstv, dlocals, requests, budget, hist >>

SessionFinallyKeepsCancel == [running |-> FALSE, cancel |-> fast_set_cancel_requested]

SessionFinally == [running |-> FALSE, cancel |-> FALSE]

\* Lines 381-384: the finally block's critical section.
FsFinally ==
    /\ pc[Daemon] = "fs_finally"
    /\ Free
    /\ fast_set_running' = SessionFinally.running
    /\ fast_set_cancel_requested' = SessionFinally.cancel
    /\ Goto(Daemon, "fs_relays_off")
    /\ h_stop_pulses' = None
    /\ h_dial' = None
    /\ Disturbed
    /\ UNCHANGED << offsetv, guards, stall_remaining_minutes, fast_set_requested,
                    fast_set_status, LOCK, relays, timev, store, ret, data,
                    burstv, dlocals, requests, budget, h_bursts, h_req_since_claim >>
    /\ UNCHANGED hist2

\* Line 385: all_relays_off(), then the return to daemon_loop.
FsRelaysOff ==
    /\ pc[Daemon] = "fs_relays_off"
    /\ A_RELAY' = FALSE
    /\ B_RELAY' = FALSE
    /\ stall' = 0
    /\ adv' = 0
    /\ pulses_sent' = 0
    /\ exc' = "none"
    /\ elapsed' = 0
    /\ Goto(Daemon, "sleep")
    /\ UNCHANGED << shared, LOCK, clock, store, ret, data, burstv, now, upd,
                    requests, budget, hist >>

\* ------------------------------------ update_offset_after_stall_or_advance()
\* Lines 241-247.  It takes the lock itself: a caller that holds the lock
\* never gets past this step.
UpdateOffset ==
    /\ pc[Daemon] = "upd_lock"
    /\ IF upd = << 0, 0 >>
       THEN /\ Return(Daemon)
            /\ UNCHANGED << offset_minutes, h_updates >>
       ELSE /\ Free
            /\ IF ~has_offset
               THEN /\ Return(Daemon)
                    /\ UNCHANGED << offset_minutes, h_updates >>
               ELSE /\ offset_minutes' = offset_after(offset_minutes, upd[1], upd[2])
                    /\ Goto(Daemon, "persist_read")
                    /\ h_updates' = IF h_quiet THEN h_updates + 1 ELSE h_updates
                    /\ UNCHANGED ret
    /\ UNCHANGED << has_offset, guards, stall_remaining_minutes, session, LOCK,
                    relays, timev, store, data, burstv, dlocals, requests, budget,
                    h_bursts, h_stop_pulses, h_dial, h_n0, h_quiet,
                    h_req_since_claim >>
    /\ h_reading' = IF upd # << 0, 0 >> /\ has_offset THEN << >> ELSE h_reading
    /\ UNCHANGED << h_tick, h_written, h_stop >>

\* ------------------------------------------------------------ persist_state()
\* Lines 171-176: the snapshot taken under the lock.
PersistRead(t) ==
    /\ pc[t] = "persist_read"
    /\ Free
    /\ data' = [data EXCEPT ![t] = Record(offset_minutes, has_offset)]
    /\ Goto(t, "persist_write")
    /\ UNCHANGED << shared, LOCK, relays, timev, store, ret, burstv, dlocals,
                    requests, budget, hist >>

\* Lines 177-178: the file is written outside the lock.
PersistWrite(t) ==
    /\ pc[t] = "persist_write"
    /\ store' = data[t]
    /\ data' = [data EXCEPT ![t] = NoFile]
    /\ Return(t)
    /\ h_written' = TRUE
    /\ UNCHANGED << shared, LOCK, relays, timev, burstv, dlocals, requests, budget,
                    h_bursts, h_stop_pulses, h_dial, h_n0, h_quiet, h_updates,
                    h_req_since_claim, h_tick, h_stop, h_reading >>

\* ------------------------------------------------------------- daemon_loop()
\* Lines 444-447: wake at the next second; tick says that it is second 0.
SleepWake(tick) ==
    /\ pc[Daemon] = "sleep"
    /\ IF tick
       THEN now' = clock /\ Goto(Daemon, "tick")
       ELSE now' = now /\ Goto(Daemon, "fs_claim")
    /\ UNCHANGED << shared, LOCK, relays, timev, store, ret, data, burstv,
                    stall, adv, pulses_sent, upd, exc, requests, budget, hist >>

\* ------------------------------------------------------ minute_tick_actions()
\* Lines 393-411: the critical section.  The stall branch keeps the lock
\* while it calls update_offset_after_stall_or_advance(1, 0).
MinuteTick ==
    /\ pc[Daemon] = "tick"
    /\ Free
    /\ IF last_minute_tick = now
       THEN /\ Goto(Daemon, "fs_claim")
            /\ UNCHANGED << last_minute_tick, stall_remaining_minutes, LOCK,
                            upd, ret >>
       ELSE /\ last_minute_tick' = now
            /\ IF fast_set_running
               THEN /\ Goto(Daemon, "fs_claim")
                    /\ UNCHANGED << stall_remaining_minutes, LOCK, upd, ret >>
               ELSE IF stall_remaining_minutes > 0
               THEN /\ stall_remaining_minutes' = stall_remaining_minutes - 1
                    /\ LOCK' = Daemon
                    /\ upd' = << 1, 0 >>
                    /\ Call(Daemon, "upd_lock", "tick_59")
               ELSE /\ Goto(Daemon, "tick_a_on")
                    /\ UNCHANGED << stall_remaining_minutes, LOCK, upd, ret >>
    /\ UNCHANGED << offsetv, last_correction_hour, session, relays, timev, store,
                    data, burstv, now, stall, adv, pulses_sent, exc, requests, budget, hist >>

\* Lines 414-419: pulse_a, then pulse_b in minutes 0..49.
TickPulseA ==
    /\ pc[Daemon] \in {"tick_a_on", "tick_a_off"}
    /\ A_RELAY' = (pc[Daemon] = "tick_a_on")
    /\ Goto(Daemon, IF pc[Daemon] = "tick_a_on" THEN "tick_a_off"
                    ELSE IF 0 <= minute_of(now) /\ minute_of(now) <= LastBMinute
                    THEN "tick_b_on" ELSE "tick_59")
    /\ h_tick' = IF pc[Daemon] = "tick_a_on"
                 THEN [h_tick EXCEPT !.a_on = @ + 1]
                 ELSE [h_tick EXCEPT !.a_off = @ + 1]
    /\ UNCHANGED << shared, LOCK, B_RELAY, timev, store, ret, data, burstv,
                    dlocals, requests, budget, h_bursts, h_stop_pulses, h_dial, h_n0, h_quiet,
                    h_updates, h_req_since_claim, h_written, h_stop, h_reading >>

TickPulseB ==
    /\ pc[Daemon] \in {"tick_b_on", "tick_b_off"}
    /\ B_RELAY' = (pc[Daemon] = "tick_b_on")
    /\ Goto(Daemon, IF pc[Daemon] = "tick_b_on" THEN "tick_b_off" ELSE "tick_59")
    /\ h_tick' = IF pc[Daemon] = "tick_b_on"
                 THEN [h_tick EXCEPT !.b_on = @ + 1]
                 ELSE [h_tick EXCEPT !.b_off = @ + 1]
    /\ UNCHANGED << shared, LOCK, A_RELAY, timev, store, ret, data, burstv,
                    dlocals, requests, budget, h_bursts, h_stop_pulses, h_dial, h_n0, h_quiet,
                    h_updates, h_req_since_claim, h_written, h_stop, h_reading >>

\* Lines 408-410 and 421-423: at minute 59 run the correction burst.
Tick59 ==
    /\ pc[Daemon] = "tick_59"
    /\ IF minute_of(now) = BurstMinute
       THEN /\ burst_now' = [burst_now EXCEPT ![Daemon] = now]
            /\ Call(Daemon, "burst_gate", "tick_end")
       ELSE /\ Goto(Daemon, "tick_end")
            /\ UNCHANGED << burst_now, ret >>
    /\ UNCHANGED << shared, LOCK, relays, timev, store, data, burst_i, dlocals,
                    requests, budget, hist >>

\* The return of minute_tick_actions; the stall branch leaves its `with LOCK`.
TickEnd ==
    /\ pc[Daemon] = "tick_end"
    /\ LOCK' = IF LOCK = Daemon THEN NoThread ELSE LOCK
    /\ now' = None
    /\ Goto(Daemon, "fs_claim")
    /\ h_tick' = NoPulses
    /\ UNCHANGED << shared, relays, timev, store, ret, data, burstv, stall, adv,
                    pulses_sent, upd, exc, requests, budget, h_bursts, h_stop_pulses, h_dial, h_n0, h_quiet,
                    h_updates, h_req_since_claim, h_written, h_stop, h_reading >>

\* --------------------------------------- run_correction_burst_once_per_hour()
CorrectionHourNotRecorded(key) == last_correction_hour

CorrectionHourRecorded(key) == key

\* Lines 252-258: the minute test and the once-per-hour gate.
BurstGate(t) ==
    /\ pc[t] = "burst_gate"
    /\ IF minute_of(burst_now[t]) # BurstMinute
       THEN /\ Return(t)
            /\ UNCHANGED << last_correction_hour, burst_i, h_bursts >>
       ELSE /\ Free
            /\ IF last_correction_hour = hour_key_of(burst_now[t])
               THEN /\ Return(t)
                    /\ UNCHANGED << last_correction_hour, burst_i, h_bursts >>
               ELSE /\ last_correction_hour' =
                           CorrectionHourRecorded(hour_key_of(burst_now[t]))
                    /\ burst_i' = [burst_i EXCEPT ![t] = 0]
                    /\ h_bursts' = [h_bursts EXCEPT ![hour_key_of(burst_now[t])] = @ + 1]
                    /\ Goto(t, "burst_pulse")
                    /\ UNCHANGED ret
    /\ UNCHANGED << offsetv, last_minute_tick, stall_remaining_minutes, session,
                    LOCK, relays, timev, store, data, burst_now, dlocals,
                    requests, budget, h_stop_pulses, h_dial, h_n0, h_quiet, h_updates,
                    h_req_since_claim >>
    /\ UNCHANGED hist2

\* Lines 263-271: pulse i of the burst, pulse_a(CORRECTION_PULSE_WIDTH_SEC).
BurstPulse(t) ==
    /\ pc[t] = "burst_pulse"
    /\ A_RELAY' = FALSE
    /\ h_dial' = IF t # Daemon THEN None ELSE h_dial
    /\ IF burst_i[t] + 1 = CORRECTION_PULSES
       THEN /\ burst_i' = [burst_i EXCEPT ![t] = 0]
            /\ burst_now' = [burst_now EXCEPT ![t] = None]
            /\ Return(t)
       ELSE /\ burst_i' = [burst_i EXCEPT ![t] = @ + 1]
            /\ Goto(t, "burst_pulse")
            /\ UNCHANGED << burst_now, ret >>
    /\ UNCHANGED << shared, LOCK, B_RELAY, timev, store, data, dlocals,
                    requests, budget, h_bursts, h_stop_pulses, h_n0, h_quiet,
                    h_updates, h_req_since_claim >>
    /\ UNCHANGED hist2

\* ------------------------------------------------------------ web handlers
WhenRunning(A) == IF fast_set_running THEN A ELSE UNCHANGED << h_quiet, h_n0, h_updates >>

\* set_dial(): set_dial_reading(hh, mm), lines 208-215, then persist_state().
WebSetDial(w, hh, mm) ==
    /\ pc[w] = "idle"
    /\ requests < budget
    /\ requests' = requests + 1
    /\ UNCHANGED budget
    /\ Free
    /\ offset_minutes' = dial_offset(hh, mm, clock)
    /\ has_offset' = TRUE
    /\ stall_remaining_minutes' = 0
    /\ Call(w, "persist_read", "idle")
    /\ h_dial' = None
    /\ h_reading' = << hh, mm >>
    /\ WhenRunning(Disturbed)
    /\ UNCHANGED << guards, session, LOCK, relays, timev, store, data, burstv,
                    dlocals, h_bursts, h_stop_pulses, h_req_since_claim, h_tick,
                    h_written, h_stop >>

\* set_dial() run to its end without another thread in between: the snapshot
\* of persist_state() and its file write follow the assignment at once.
WebSetDialWhole(w, hh, mm) ==
    /\ pc[w] = "idle"
    /\ requests < budget
    /\ requests' = requests + 1
    /\ UNCHANGED budget
    /\ Free
    /\ offset_minutes' = dial_offset(hh, mm, clock)
    /\ has_offset' = TRUE
    /\ stall_remaining_minutes' = 0
    /\ store' = Record(dial_offset(hh, mm, clock), TRUE)
    /\ h_dial' = None
    /\ h_written' = TRUE
    /\ h_reading' = << hh, mm >>
    /\ WhenRunning(Disturbed)
    /\ UNCHANGED << guards, session, LOCK, relays, timev, ctl, data, burstv,
                    dlocals, h_bursts, h_stop_pulses, h_req_since_claim, h_tick,
                    h_stop >>

\* fast_set(), lines 557-560.
WebFastSet(w) ==
    /\ pc[w] = "idle"
    /\ requests < budget
    /\ requests' = requests + 1
    /\ UNCHANGED budget
    /\ Free
    /\ fast_set_requested' = TRUE
    /\ fast_set_cancel_requested' = CancelCleared
    /\ fast_set_status' = "FAST SET requested..."
    /\ h_req_since_claim' = TRUE
    /\ h_stop' = IF h_stop = "idle_stop" THEN "after_idle_stop" ELSE "requested"
    /\ WhenRunning(Disturbed)
    /\ UNCHANGED << offsetv, guards, stall_remaining_minutes, fast_set_running,
                    LOCK, relays, timev, store, ctl, data, burstv, dlocals,
                    h_bursts, h_stop_pulses, h_dial, h_tick, h_written, h_reading >>

\* stop_correction(), lines 566-569.
WebStop(w) ==
    /\ pc[w] = "idle"
    /\ requests < budget
    /\ requests' = requests + 1
    /\ UNCHANGED budget
    /\ Free
    /\ fast_set_cancel_requested' = TRUE
    /\ fast_set_requested' = FALSE
    /\ fast_set_status' = "STOP requested..."
    /\ Goto(w, "stop_off")
    /\ h_stop_pulses' = IF fast_set_running /\ h_stop_pulses = None
                        THEN 0 ELSE h_stop_pulses
    /\ h_stop' = IF ~fast_set_running /\ ~fast_set_requested
                 THEN "idle_stop" ELSE "stopped"
    /\ WhenRunning(Disturbed)
    /\ UNCHANGED << offsetv, guards, stall_remaining_minutes, fast_set_running,
                    LOCK, relays, timev, store, ret, data, burstv, dlocals,
                    h_bursts, h_dial, h_req_since_claim, h_tick, h_written, h_reading >>

\* stop_correction(), line 571: all_relays_off().
WebStopOff(w) ==
    /\ pc[w] = "stop_off"
    /\ A_RELAY' = FALSE
    /\ B_RELAY' = FALSE
    /\ Goto(w, "idle")
    /\ UNCHANGED << shared, LOCK, timev, store, ret, data, burstv, dlocals,
                    requests, budget, hist >>

\* stop_correction() with the arrival of the request as a step of its own:
\* the handler has been entered and stands before `with LOCK` (line 566).
WebStopReceived(w) ==
    /\ pc[w] = "idle"
    /\ requests < budget
    /\ requests' = requests + 1
    /\ Goto(w, "stop_lock")
    /\ UNCHANGED << shared, LOCK, relays, timev, store, ret, data, burstv,
                    dlocals, budget, hist >>

\* stop_correction(), lines 566-569, entered from WebStopReceived.
WebStopLocked(w) ==
    /\ pc[w] = "stop_lock"
    /\ Free
    /\ fast_set_cancel_requested' = TRUE
    /\ fast_set_requested' = FALSE
    /\ fast_set_status' = "STOP requested..."
    /\ Goto(w, "stop_off")
    /\ h_stop_pulses' = IF fast_set_running /\ h_stop_pulses = None
                        THEN 0 ELSE h_stop_pulses
    /\ h_stop' = IF ~fast_set_running /\ ~fast_set_requested
                 THEN "idle_stop" ELSE "stopped"
    /\ WhenRunning(Disturbed)
    /\ UNCHANGED << offsetv, guards, stall_remaining_minutes, fast_set_running,
                    LOCK, relays, timev, store, ret, data, burstv, dlocals,
                    requests, budget, h_bursts, h_dial, h_req_since_claim,
                    h_tick, h_written, h_reading >>

\* pulse_test(), which in {"A", "B", "AB"}: the relay(s) go on.
WebPulseTest(w, which) ==
    /\ pc[w] = "idle"
    /\ requests < budget
    /\ requests' = requests + 1
    /\ UNCHANGED budget
    /\ A_RELAY' = IF which \in {"A", "AB"} THEN TRUE ELSE A_RELAY
    /\ B_RELAY' = IF which \in {"B", "AB"} THEN TRUE ELSE B_RELAY
    /\ Call(w, "pulse_off", which)
    /\ h_dial' = None
    /\ UNCHANGED << shared, LOCK, timev, store, data, burstv, dlocals,
                    h_bursts, h_stop_pulses, h_n0, h_quiet, h_updates,
                    h_req_since_claim >>
    /\ UNCHANGED hist2

\* pulse(), line 99, and pulse_ab(), lines 114-115: the relay(s) go off.
WebPulseOff(w) ==
    /\ pc[w] = "pulse_off"
    /\ A_RELAY' = IF ret[w] \in {"A", "AB"} THEN FALSE ELSE A_RELAY
    /\ B_RELAY' = IF ret[w] \in {"B", "AB"} THEN FALSE ELSE B_RELAY
    /\ pc' = [pc EXCEPT ![w] = "idle"]
    /\ ret' = [ret EXCEPT ![w] = "none"]
    /\ UNCHANGED << shared, LOCK, timev, store, data, burstv, dlocals,
                    requests, budget, hist >>

\* pulse_test(), which = "CORR", lines 592-594: the burst with minute := 59.
WebPulseCorr(w) ==
    /\ pc[w] = "idle"
    /\ requests < budget
    /\ requests' = requests + 1
    /\ UNCHANGED budget
    /\ burst_now' = [burst_now EXCEPT ![w] = (hour_key_of(clock) * 60) + BurstMinute]
    /\ Call(w, "burst_gate", "idle")
    /\ UNCHANGED << shared, LOCK, relays, timev, store, data, burst_i, dlocals,
                    hist >>

\* -------------------------------------------------------------- environment
\* The wall clock enters the next minute.  A minute tick starts at second 0
\* and reaches the burst's gate after its two pulses of
\* MINUTE_PULSE_WIDTH_SEC = 1.0 s and a sleep of 0.2 s, so the minute does not
\* end while the daemon is between the two.
TickBeforeBurst ==
    {"tick", "tick_a_on", "tick_a_off", "tick_b_on", "tick_b_off", "tick_59",
     "burst_gate"}

TimePasses ==
    /\ clock < MaxClock
    /\ pc[Daemon] \notin TickBeforeBurst
    /\ clock' = clock + 1
    /\ WhenRunning(Disturbed)
    /\ UNCHANGED << shared, LOCK, relays, elapsed, store, ctl, data, burstv,
                    dlocals, requests, budget, h_bursts, h_stop_pulses, h_dial,
                    h_req_since_claim, h_tick, h_written, h_stop >>
    /\ h_reading' = << >>

\* The process is suspended during a session for longer than the time cap.
LongPause ==
    /\ pc[Daemon] \in {"fs_top", "fs_plan", "fs_decide", "fs_pulse_off",
                       "fs_after_update"}
    /\ elapsed <= FAST_SET_MAX_SECONDS
    /\ elapsed' = elapsed + FAST_SET_MAX_SECONDS + 1
    /\ Disturbed
    /\ UNCHANGED << shared, LOCK, relays, clock, store, ctl, data, burstv,
                    dlocals, requests, budget, h_bursts, h_stop_pulses, h_dial,
                    h_req_since_claim, hist2 >>

\* ------------------------------------------------------------ specifications
DaemonStartup == RestoreState \/ InitRelaysOff

DaemonFastSet ==
    \/ FsClaim \/ FsPlan \/ FsFirst \/ FsTop \/ FsDecide \/ FsPulseOff
    \/ FsAfterUpdate \/ FsExcept \/ FsFinally \/ FsRelaysOff
    \/ UpdateOffset \/ PersistRead(Daemon) \/ PersistWrite(Daemon)

DaemonTick ==
    \/ MinuteTick \/ TickPulseA \/ TickPulseB \/ Tick59 \/ TickEnd
    \/ BurstGate(Daemon) \/ BurstPulse(Daemon)

DaemonNext ==
    \/ DaemonStartup \/ DaemonFastSet \/ DaemonTick
    \/ \E tick \in BOOLEAN : SleepWake(tick)

WebNext ==
    \E w \in Web :
        \/ \E r \in DialReadings : WebSetDial(w, r[1], r[2])
        \/ WebFastSet(w) \/ WebStop(w) \/ WebStopOff(w)
        \/ \E which \in {"A", "B", "AB"} : WebPulseTest(w, which)
        \/ WebPulseOff(w) \/ WebPulseCorr(w)
        \/ PersistRead(w) \/ PersistWrite(w)
        \/ BurstGate(w) \/ BurstPulse(w)

Next == DaemonNext \/ WebNext \/ TimePasses \/ LongPause

Spec == Init /\ [][Next]_vars

\* Long sessions: the dial starts up to 360 minutes behind, the operator may
\* set it 360 minutes behind again, and the wall clock stays within one
\* minute (the plan does not depend on it).  A set-dial request runs to its
\* end in one step: the session never reads the state file.
InitLong == InitWith(LongRecords, MaxLongRequests)

NextLong ==
    \/ DaemonStartup \/ DaemonFastSet \/ SleepWake(FALSE)
    \/ \E w \in Web :
        \/ \E r \in LongReadings : WebSetDialWhole(w, r[1], r[2])
        \/ WebFastSet(w) \/ WebStop(w) \/ WebStopOff(w)

SpecLong == InitLong /\ [][NextLong]_vars

\* The daemon with fast-set requests only; the daemon thread is scheduled
\* whenever it can take a step.
InitFair == InitWith({Record(1, TRUE), Record(-2, TRUE)}, 1)

NextFair == DaemonNext \/ (\E w \in Web : WebFastSet(w)) \/ TimePasses \/ LongPause

FairSpec == InitFair /\ [][NextFair]_vars /\ WF_vars(DaemonNext)

\* Dial readings: the wall clock stands at one of DialClocks, the daemon
\* starts, and the operator submits any valid reading.
InitDial == InitAt(DialRecords, MaxDialRequests, DialClocks)

NextDial ==
    \/ DaemonStartup
    \/ \E w \in Web : \E hh \in 0 .. 23 : \E mm \in 0 .. 59 :
          WebSetDialWhole(w, hh, mm)

SpecDial == InitDial /\ [][NextDial]_vars

\* The daemon with fast-set and stop requests; the daemon thread and a stop
\* handler that has been entered are scheduled whenever they can take a step.
InitStop == InitWith({Record(1, TRUE), Record(-2, TRUE)}, MaxStopRequests)

WebStopRuns == \E w \in Web : WebStopLocked(w) \/ WebStopOff(w)

NextStop ==
    \/ DaemonNext \/ TimePasses \/ LongPause
    \/ \E w \in Web : WebFastSet(w) \/ WebStopReceived(w)
    \/ WebStopRuns

FairStopSpec ==
    InitStop /\ [][NextStop]_vars /\ WF_vars(DaemonNext) /\ WF_vars(WebStopRuns)

\* ===================================================================== claims

\* C1: critical sections on LOCK never nest: no thread reaches a step that
\* acquires LOCK while it holds LOCK itself (it would wait forever).
AcquiresLock(t) ==
    \/ pc[t] = "upd_lock" /\ upd # << 0, 0 >>
    \/ pc[t] \in {"persist_read", "fs_claim", "fs_plan0", "fs_plan", "fs_first",
                  "fs_except", "fs_finally", "tick"}
    \/ pc[t] = "burst_gate" /\ minute_of(burst_now[t]) = BurstMinute

C1_NoNestedAcquire == \A t \in Threads : ~(LOCK = t /\ AcquiresLock(t))

\* C2: a minute tick that finds stall_remaining_minutes > 0 and decrements it
\* goes on to apply the offset update (stalled=1, advanced=0).
C2_StallTickAppliesUpdate ==
    (pc[Daemon] = "upd_lock" /\ upd = << 1, 0 >>) ~> (pc[Daemon] # "upd_lock")

\* C3: a fast-set request handled while a session is running leaves
\* fast_set_requested, fast_set_running, fast_set_cancel_requested and
\* fast_set_status unchanged.
C3_RequestWhileRunningIsNoOp ==
    [][\A w \in Web : (WebFastSet(w) /\ fast_set_running) => UNCHANGED session]_vars

\* C4: after a stop request handled while a session is running, the session
\* starts at most one further A+B pulse.
C4_StopWithinOnePulse == h_stop_pulses <= 1

\* C5: when the loop's plan of an undisturbed session comes out (0, 0), so that
\* the session ends Completed, the dial (its position at the start of the
\* session plus one minute per A+B pulse) is at the system's 12-hour minute.
C5_CompletedInSync ==
    [][(/\ pc[Daemon] = "fs_plan"
        /\ pc'[Daemon] = "fs_decide"
        /\ stall' = 0
        /\ adv' = 0
        /\ h_dial # None) => h_dial = to_12h_minutes(clock)]_vars

\* C11: a stop request that has been received (the handler stands before its
\* critical section) goes on to switch both relays off and to return.
C11_StopReachesRelaysOff ==
    \A w \in Web : (pc[w] = "stop_lock") ~> (pc[w] = "idle")

\* C12: right after set_dial_reading(hh, mm) at system minute s the offset is
\* ((hh*60+mm) mod 720 - s) mod 720, has_offset is true, the stall counter is 0
\* and the estimate of the dial is (hh*60+mm) mod 720.
C12_SetDialRoundTrip ==
    h_reading # << >> =>
        LET dial_m == ((h_reading[1] * 60) + h_reading[2]) % 720
            s == ((((clock \div 60) % 24) * 60) + (clock % 60)) % 720
        IN  /\ offset_minutes = (dial_m - s) % 720
            /\ offset_minutes \in 0 .. 719
            /\ has_offset
            /\ stall_remaining_minutes = 0
            /\ current_estimated_dial_minutes(clock) = dial_m

\* The dial reads 00:05 at 18:01: the difference wraps around the dial.
C12_Witness ==
    /\ h_reading = << 0, 5 >>
    /\ clock = 1081
    /\ offset_minutes = 364
    /\ current_estimated_dial_minutes(clock) = 5

\* C13: with delta = (system minutes - estimated dial minutes) mod 720 the plan
\* is (0, 0) for delta = 0, (720 - delta, 0) for delta > 360 and (0, delta)
\* for 1 <= delta <= 360: exactly one of stall > 0 and advance = 0,
\* stall = 0 and advance > 0, both zero holds, and delta = 360 advances.
C13_PlanTotalExclusive ==
    LET s == ((((clock \div 60) % 24) * 60) + (clock % 60)) % 720
        delta == (s - current_estimated_dial_minutes(clock)) % 720
        plan == compute_fast_or_stall_plan(clock)
        stalls == plan[1] > 0 /\ plan[2] = 0
        advances == plan[1] = 0 /\ plan[2] > 0
        aligned == plan[1] = 0 /\ plan[2] = 0
    IN  /\ delta \in 0 .. 719
        /\ delta = 0 => plan = << 0, 0 >>
        /\ delta > 360 => plan = << 720 - delta, 0 >>
        /\ (1 <= delta /\ delta <= 360) => plan = << 0, delta >>
        /\ stalls \/ advances \/ aligned
        /\ ~(stalls /\ advances) /\ ~(stalls /\ aligned) /\ ~(advances /\ aligned)
        /\ plan[1] \in 0 .. 359
        /\ plan[2] \in 0 .. 360

\* The dial half a turn off (set to 00:01 at 18:01) is advanced by 360.
C13_Witness ==
    /\ h_reading = << 0, 1 >>
    /\ clock = 1081
    /\ compute_fast_or_stall_plan(clock) = << 0, 360 >>

\* C14: offset_minutes is an integer in [0, 720) in every reachable state.
C14_OffsetNormalised == offset_minutes \in 0 .. 719

\* An advance update has just taken the offset from 719 round to 0, after a
\* restore that normalised a stored -2 to 718.
C14_Witness ==
    /\ pc[Daemon] = "persist_read"
    /\ ret[Daemon] = "fs_after_update"
    /\ offset_minutes = 0
    /\ store = Record(-2, TRUE)

\* C15: every test request with target CORR runs the correction burst: the
\* handler's call of run_correction_burst_once_per_hour goes on to the pulses.
C15_TestBurstAlwaysRuns ==
    [][\A w \in Web : BurstGate(w) => pc'[w] = "burst_pulse"]_vars

\* C18: the daemon's minute-59 tick in normal cadence emits the correction
\* burst, whatever test requests were made earlier in that hour.
C18_TickBurstFires ==
    [][BurstGate(Daemon) => pc'[Daemon] = "burst_pulse"]_vars

\* C16: a session whose first plan is (stall n, advance 0), n > 0, sets
\* stall_remaining_minutes = n and the stalling status without a pulse, and
\* goes straight to the finally block, which ends it (fast_set_running
\* false); the session changes neither offset_minutes nor a relay.
C16_StallHandoff ==
    [][/\ (pc[Daemon] = "fs_first" /\ stall > 0 /\ pc'[Daemon] # "fs_first") =>
             (/\ stall_remaining_minutes' = stall
              /\ fast_set_status' = "Dial is fast: will STALL until aligned."
              /\ pc'[Daemon] = "fs_finally"
              /\ pulses_sent = 0 /\ pulses_sent' = 0
              /\ UNCHANGED << offset_minutes, A_RELAY, B_RELAY >>)
       /\ (/\ pc[Daemon] = "fs_finally" /\ stall > 0 /\ pulses_sent = 0
           /\ pc'[Daemon] # "fs_finally") =>
             (/\ ~fast_set_running'
              /\ pc'[Daemon] = "fs_relays_off"
              /\ UNCHANGED << offset_minutes, stall_remaining_minutes,
                              fast_set_status, A_RELAY, B_RELAY >>)]_vars

\* The session of a dial one minute fast is over: no pulse, one stall minute.
C16_Witness ==
    /\ pc[Daemon] = "fs_relays_off"
    /\ stall = 1
    /\ pulses_sent = 0
    /\ stall_remaining_minutes = 1
    /\ fast_set_status = "Dial is fast: will STALL until aligned."
    /\ ~fast_set_running

\* C17: a minute tick in normal cadence switches line A on and off exactly
\* once, then line B on and off exactly once if the calendar minute is in
\* 0..49 and not at all otherwise; the B pulse starts after the A pulse ended.
\* The tick is in normal cadence: its critical section found no session
\* running and stall_remaining_minutes = 0.
MinutePulsesOf(m) ==
    IF 0 <= m /\ m <= 49
    THEN [a_on |-> 1, a_off |-> 1, b_on |-> 1, b_off |-> 1]
    ELSE [a_on |-> 1, a_off |-> 1, b_on |-> 0, b_off |-> 0]

C17_MinutePulses ==
    /\ pc[Daemon] \in {"tick_a_on", "tick_a_off", "tick_b_on", "tick_b_off",
                       "tick_59", "tick_end"} => ~fast_set_running
    /\ h_tick.b_on > 0 => (h_tick.a_on = 1 /\ h_tick.a_off = 1)
    /\ pc[Daemon] = "tick_a_on" => h_tick = NoPulses
    /\ pc[Daemon] = "tick_end" => h_tick = MinutePulsesOf(now % 60)
    /\ (pc[Daemon] \in {"burst_gate", "burst_pulse"}) =>
          h_tick = MinutePulsesOf(59)

\* The tick of minute 0 has pulsed A and then B.
C17_Witness ==
    /\ pc[Daemon] = "tick_end"
    /\ now % 60 = 0
    /\ h_tick = [a_on |-> 1, a_off |-> 1, b_on |-> 1, b_off |-> 1]

\* C19: once the state file has been written and no offset update or
\* persist_state() is in flight, the file holds the offset_minutes and
\* has_offset of STATE.
PersistInFlight ==
    \/ \E t \in Threads : pc[t] \in {"persist_read", "persist_write"}
    \/ pc[Daemon] = "upd_lock"

C19_PersistedMatchesMemory ==
    (h_written /\ ~PersistInFlight) => store = Record(offset_minutes, has_offset)

\* C20: a session ends Cancelled only when the last stop or fast-set request
\* handled before its cancel check was a stop request handled while a session
\* was running or a request was pending; a stop handled while idle with no
\* request pending, followed by a fast-set request, cancels nothing.
C20_IdleStopCancelsNothing ==
    [][(/\ pc[Daemon] = "fs_top"
        /\ pc'[Daemon] = "fs_finally"
        /\ fast_set_status' = "FAST SET cancelled by user.") =>
            h_stop = "stopped"]_vars

\* The session of a fast-set request that followed a stop handled while idle
\* is past its cancel check and pulsing.
C20_Witness ==
    /\ h_stop = "after_idle_stop"
    /\ pc[Daemon] = "fs_pulse_off"
    /\ fast_set_running
    /\ A_RELAY /\ B_RELAY

\* C6: the daemon emits minute and correction-burst pulses only while
\* fast_set_running is false, and fast-set A+B pulses only while it is true
\* (and then it is not inside a minute tick).
InMinuteTick ==
    \/ pc[Daemon] \in {"tick_a_on", "tick_a_off", "tick_b_on", "tick_b_off",
                       "tick_59", "tick_end", "burst_gate", "burst_pulse"}
    \/ pc[Daemon] \in {"upd_lock", "persist_read", "persist_write"}
       /\ ret[Daemon] = "tick_59"

C6_MutualExclusion ==
    /\ InMinuteTick => ~fast_set_running
    /\ pc[Daemon] = "fs_pulse_off" => (fast_set_running /\ ~InMinuteTick)

C6_Witness ==
    /\ pc[Daemon] = "tick_a_off"
    /\ A_RELAY
    /\ fast_set_status = "FAST SET complete."

\* C7: a session that starts with plan (0, n), n in 1..360, and runs with no
\* web request and no passing of time ends Completed after exactly n pulses
\* and n offset updates, with the plan (0, 0).
C7_ExactlyNPulses ==
    /\ h_quiet => (h_n0 <= HalfCycle /\ pulses_sent <= h_n0 /\ h_updates <= h_n0)
    /\ (pc[Daemon] = "fs_finally" /\ h_quiet /\ h_n0 > 0) =>
          /\ fast_set_status = "FAST SET complete."
          /\ pulses_sent = h_n0
          /\ h_updates = h_n0
          /\ compute_fast_or_stall_plan(clock) = << 0, 0 >>

C7_Witness ==
    /\ pc[Daemon] = "fs_finally"
    /\ h_quiet
    /\ h_n0 = HalfCycle
    /\ pulses_sent = HalfCycle

C9_ReturnsIdle ==
    [][(pc[Daemon] = "fs_relays_off" /\ pc'[Daemon] = "sleep") =>
          (/\ ~fast_set_running'
           /\ ~fast_set_cancel_requested'
           /\ ~A_RELAY' /\ ~B_RELAY')]_vars

\* C9 (amended): the finally block's critical section clears fast_set_running
\* and fast_set_cancel_requested; the return follows the switching off of both
\* relays with fast_set_running false; in between only a stop request sets
\* fast_set_cancel_requested.
C9_TerminalClearsSession ==
    [][/\ (pc[Daemon] = "fs_finally" /\ pc'[Daemon] # "fs_finally") =>
             (~fast_set_running' /\ ~fast_set_cancel_requested')
       /\ (pc[Daemon] = "fs_relays_off" /\ pc'[Daemon] = "sleep") =>
             (~fast_set_running' /\ ~A_RELAY' /\ ~B_RELAY')
       /\ (pc[Daemon] = "fs_relays_off" /\ fast_set_cancel_requested') =>
             (fast_set_cancel_requested \/ \E w \in Web : WebStop(w))]_vars

C9_Witness ==
    /\ pc[Daemon] = "fs_relays_off"
    /\ fast_set_cancel_requested
    /\ fast_set_status = "STOP requested..."

\* C10: a session emits at most FAST_SET_MAX_PULSES A+B pulses and is never
\* blocked on LOCK; the cap is raised with the dial still behind, ends the
\* session with the error status, and a request is pending afterwards only if
\* it was made after the session was claimed.
FsPulsesStarted ==
    pulses_sent +
      (IF \/ pc[Daemon] \in {"fs_pulse_off", "fs_after_update"}
          \/ ret[Daemon] = "fs_after_update"
       THEN 1 ELSE 0)

C10_PulseCapIsHard ==
    /\ FsPulsesStarted <= FAST_SET_MAX_PULSES
    /\ fast_set_running => LOCK = NoThread
    /\ exc = "FAST SET pulse cap reached" =>
          /\ pulses_sent = FAST_SET_MAX_PULSES
          /\ adv > 0
          /\ pc[Daemon] \in {"fs_finally", "fs_relays_off"} =>
                fast_set_status \in {"FAST SET error: FAST SET pulse cap reached",
                                     "FAST SET requested...", "STOP requested..."}
    /\ fast_set_requested => h_req_since_claim

C10_Witness ==
    /\ pc[Daemon] = "fs_relays_off"
    /\ exc = "FAST SET pulse cap reached"
    /\ fast_set_status = "FAST SET error: FAST SET pulse cap reached"
    /\ ~fast_set_running
    /\ ~fast_set_requested

\* C21: whenever no minute tick is running and stall_remaining_minutes > 0,
\* has_offset is true and the stall amount of the plan equals
\* stall_remaining_minutes.
C21_StallCounterMatchesPlan ==
    (/\ ~InMinuteTick
     /\ pc[Daemon] # "tick"
     /\ stall_remaining_minutes > 0) =>
        (/\ has_offset
         /\ compute_fast_or_stall_plan(clock)[1] = stall_remaining_minutes)

=============================================================================
